---------------------------- MODULE Spec2Model ----------------------------
(***************************************************************************)
(* State-machine model of yate-config.py: the YateConfigManager            *)
(* (directory provisioning, config parsing, default-config generation,     *)
(* TLS material generation, backups), the YateDashboard event handlers     *)
(* and main().  The model starts where main() is entered, with the         *)
(* module's classes defined (textual's App, line 10, taken as imported).   *)
(*                                                                         *)
(* Text is modelled as a sequence of atoms.  An atom is a string that is   *)
(* either one of the characters the code inspects ("=", "#", " ", "\n")    *)
(* or a run of other characters (a word).  A word never contains "=",      *)
(* never contains white space and never starts with "#", so that           *)
(* `'=' in line`, str.strip, str.split('=', 1) and str.startswith('#')     *)
(* act on atoms exactly as they act on characters.                         *)
(***************************************************************************)
EXTENDS Naturals, Sequences, FiniteSets, TLC

VARIABLES
    pc,              \* position of the process: "idle" when not running
    euid,            \* effective user id of the running process
    at_start,        \* the file system as the running (or last) process found it
    exitStatus,      \* <<>> while running or never run, <<n>> after exit
    stdout,          \* lines printed by print() / console.print() this run
    stderr,          \* uncaught exceptions reported by the interpreter
    clock,           \* wall clock, in seconds
    dirs,            \* directory path -> [exists, mode]
    configFile,      \* /etc/yate/yate.conf: [exists, content]
    certFile,        \* /etc/yate/certs/public_cert.pem: [exists, content]
    keyFile,         \* /etc/yate/certs/private_key.pem: [exists, mode, content]
    backupFiles,     \* backup path -> content, for the paths that exist
    current_config,  \* YateConfigManager.current_config
    default_config,  \* create_default_config's rendered text, while it runs
    gsm_status,      \* YateDashboard reactive fields
    system_load,
    active_calls,
    switches,        \* Switch widget id -> value, for the switch the code writes
    table,           \* rows of the #config-table DataTable
    log              \* lines of the #event-log Log widget

vars == <<pc, euid, at_start, exitStatus, stdout, stderr, clock, dirs, configFile,
          certFile, keyFile, backupFiles, current_config, default_config,
          gsm_status, system_load, active_calls, switches, table, log>>

(***************************************************************************)
(* Bounds of the model.                                                    *)
(***************************************************************************)
MaxClock == 1
MaxLog == 1
MaxLoad == 1
MaxLines == 2
MaxLineLen == 2

(***************************************************************************)
(* Constants of the program (lines 23-28).                                 *)
(***************************************************************************)
CONFIG_DIR == <<"/etc/yate">>
CONFIG_FILE == CONFIG_DIR \o <<"/yate.conf">>
CERT_DIR == CONFIG_DIR \o <<"/certs">>
CERT_FILE == CERT_DIR \o <<"/public_cert.pem">>
LOG_DIR == <<"/var/log/yate">>
BACKUP_DIR == <<"/etc/yate/backups">>
KEY_FILE == CERT_DIR \o <<"/private_key.pem">>

(***************************************************************************)
(* The str methods the code uses.                                          *)
(***************************************************************************)
IsSpace(c) == c \in {" ", "\t", "\n"}

RECURSIVE lstrip(_)
lstrip(s) == IF s # <<>> /\ IsSpace(Head(s)) THEN lstrip(Tail(s)) ELSE s

RECURSIVE rstrip(_)
rstrip(s) ==
    IF s # <<>> /\ IsSpace(s[Len(s)]) THEN rstrip(SubSeq(s, 1, Len(s) - 1)) ELSE s

strip(s) == rstrip(lstrip(s))

contains(s, c) == \E i \in 1..Len(s) : s[i] = c

startswith(s, c) == s # <<>> /\ Head(s) = c

find(s, c) == CHOOSE i \in 1..Len(s) : s[i] = c /\ \A j \in 1..(i - 1) : s[j] # c

rfind(s, c) == CHOOSE i \in 1..Len(s) : s[i] = c /\ \A j \in (i + 1)..Len(s) : s[j] # c

\* line.split('=', 1) of a line that contains '=': <<before, after>> the first '='
split1(s, c) == <<SubSeq(s, 1, find(s, c) - 1), SubSeq(s, find(s, c) + 1, Len(s))>>

\* line.rsplit('=', 1): the split at the last '='
rsplit1(s, c) == <<SubSeq(s, 1, rfind(s, c) - 1), SubSeq(s, rfind(s, c) + 1, Len(s))>>

\* datetime.now().strftime(...): the clock at second resolution, as text
strftime(t) == ToString(t)

(***************************************************************************)
(* dict operations.                                                        *)
(***************************************************************************)
EmptyDict == [k \in {} |-> <<>>]

setitem(d, key, value) ==
    [k \in DOMAIN d \cup {key} |-> IF k = key THEN value ELSE d[k]]

(***************************************************************************)
(* parse_config (lines 89-95).  `for line in f` yields each line with its  *)
(* terminator; the file content is kept as the sequence of its lines       *)
(* without terminators.                                                    *)
(***************************************************************************)
\* parse_line splitting at the last "=" of the line
parse_line_rsplit(cfg, line) ==
    IF contains(line, "=") /\ ~startswith(strip(line), "#")
    THEN setitem(cfg, strip(rsplit1(line, "=")[1]), strip(rsplit1(line, "=")[2]))
    ELSE cfg

parse_line(cfg, line) ==
    IF contains(line, "=") /\ ~startswith(strip(line), "#")
    THEN setitem(cfg, strip(split1(line, "=")[1]), strip(split1(line, "=")[2]))
    ELSE cfg

RECURSIVE parse_lines(_, _)
parse_lines(cfg, lines) ==
    IF lines = <<>> THEN cfg
    ELSE parse_lines(parse_line(cfg, Head(lines) \o <<"\n">>), Tail(lines))

parse_config(cfg, file) == parse_lines(cfg, file.content)

(***************************************************************************)
(* CONFIG_TEMPLATE.format(...) (lines 31-68 and 102-118): the rendered     *)
(* default configuration, as lines of atoms.                               *)
(***************************************************************************)
CONFIG_TEMPLATE(timestamp, user, hostname) ==
    << <<"#", " ", "YateBTS", " ", "Configuration", " ", "-", " ", "Secure",
         " ", "Edition", " ", "v2.3">>,
       <<"#", " ", "Last", " ", "modified:", " ", timestamp>>,
       <<"#", " ", "Authorized", " ", "operators:", " ", user, "@", hostname>>,
       <<>>,
       <<"[core]">>,
       <<"http.enabled", "=", "yes">>,
       <<"http.port", "=", "5038">>,
       <<"http.allowed", "=", "127.0.0.1,192.168.0.0/16">>,
       <<>>,
       <<"[GSM]">>,
       <<"Radio.Band", "=", "GSM900">>,
       <<"Radio.C0", "=", "62">>,
       <<"Radio.MaxTxPower", "=", "20">>,
       <<"Radio.CountryCode", "=", "645">>,
       <<"Radio.NetworkCode", "=", "01">>,
       <<"Radio.LAC", "=", "4101">>,
       <<"Radio.CellID", "=", "101">>,
       <<"Radio.Encryption.A5.1", "=", "no">>,
       <<"Radio.Encryption.A5.3", "=", "yes">>,
       <<>>,
       <<"[Security]">>,
       <<"TLS.Enabled", "=", "yes">>,
       <<"TLS.Certificate", "=">> \o CERT_FILE,
       <<"TLS.Key", "=">> \o KEY_FILE,
       <<"AccessControl", "=", "admin,root">>,
       <<"AuditLog", "=">> \o LOG_DIR \o <<"/audit.log">>,
       <<"FailedLoginAttempts", "=", "3">>,
       <<"LoginBanTime", "=", "300">>,
       <<>>,
       <<"[Monitoring]">>,
       <<"SystemStats.Interval", "=", "60">>,
       <<"CallDataRecords", "=", "yes">>,
       <<"SMS.Logs", "=", "yes">>,
       <<>>,
       <<"[Interfaces]">>,
       <<"GSM.Interface", "=", "eth0">>,
       <<"SIP.Interface", "=", "eth0">> >>

(***************************************************************************)
(* The file system the program works on.                                   *)
(***************************************************************************)
Dirs == {CONFIG_DIR, CERT_DIR, BACKUP_DIR, LOG_DIR}

NoDir == [exists |-> FALSE, mode |-> ""]
NoFile == [exists |-> FALSE, content |-> <<>>]
NoKey == [exists |-> FALSE, mode |-> "", content |-> <<>>]

\* os.makedirs(path, mode=mode) of a directory that does not exist, in a
\* process whose umask clears none of the bits of mode
makedirs(d, path, mode) == [d EXCEPT ![path] = [exists |-> TRUE, mode |-> mode]]

\* os.path.exists
exists(path) ==
    IF path \in Dirs THEN dirs[path].exists
    ELSE IF path = CONFIG_FILE THEN configFile.exists
    ELSE IF path = CERT_FILE THEN certFile.exists
    ELSE IF path = KEY_FILE THEN keyFile.exists
    ELSE path \in DOMAIN backupFiles

\* Configuration files an installation may hold before the first run: a
\* hand-written file with a LAC, and the same file with the LAC left empty.
InstalledConfig(lac) ==
    << <<"[GSM]">>,
       <<"Radio.Band", "=", "GSM900">>,
       <<"Radio.CountryCode", "=", "645">>,
       <<"Radio.NetworkCode", "=", "01">>,
       <<"Radio.LAC", "=">> \o lac,
       <<"TLS.Enabled", "=", "no">> >>

InstalledConfigs == {InstalledConfig(<<"9999">>), InstalledConfig(<<>>)}

(***************************************************************************)
(* Initial state: no process runs.  The installation is fresh, or the      *)
(* configuration directory was laid out by hand, without sub-directories   *)
(* and with or without a configuration file; /var/log/yate may exist.      *)
(***************************************************************************)
InitFs ==
    /\ \E config_dir, log_dir \in BOOLEAN :
          dirs = [d \in Dirs |->
                    IF (d = CONFIG_DIR /\ config_dir) \/ (d = LOG_DIR /\ log_dir)
                    THEN [exists |-> TRUE, mode |-> "0755"]
                    ELSE NoDir]
    /\ configFile \in {NoFile} \cup
                      {[exists |-> TRUE, content |-> c] : c \in InstalledConfigs}
    /\ configFile.exists => dirs[CONFIG_DIR].exists
    /\ certFile = NoFile
    /\ keyFile = NoKey
    /\ backupFiles = EmptyDict

fsVars == <<dirs, configFile, certFile, keyFile, backupFiles>>

\* the file system, as one value
Snapshot ==
    [dirs |-> dirs, configFile |-> configFile, certFile |-> certFile,
     keyFile |-> keyFile, backupFiles |-> backupFiles]

\* The memory of a process that does not run (yet, or any more).
NoMemory ==
    /\ current_config = EmptyDict
    /\ default_config = <<>>
    /\ gsm_status = "stopped"
    /\ system_load = 0
    /\ active_calls = 0
    /\ switches = [id \in {"gsm-switch"} |-> FALSE]
    /\ table = EmptyDict
    /\ log = <<>>

InitProcess ==
    /\ pc = "idle"
    /\ euid = 0
    /\ at_start = Snapshot
    /\ exitStatus = <<>>
    /\ stdout = <<>>
    /\ stderr = <<>>
    /\ NoMemory

Init == clock = 0 /\ InitFs /\ InitProcess

uiVars == <<gsm_status, system_load, active_calls, switches, table, log>>
memVars == <<current_config, default_config, uiVars>>

(***************************************************************************)
(* Process start and end.                                                  *)
(***************************************************************************)
\* The interpreter starts the script as user `uid` (lines 284-285).
Launch(uid) ==
    /\ pc = "idle"
    /\ pc' = "main"
    /\ euid' = uid
    /\ at_start' = Snapshot
    /\ exitStatus' = <<>>
    /\ stdout' = <<>>
    /\ stderr' = <<>>
    /\ UNCHANGED <<clock, fsVars, memVars>>

\* The process ends with `status`; its memory is gone.
Exit(status) ==
    /\ pc' = "idle"
    /\ exitStatus' = <<status>>
    /\ current_config' = EmptyDict
    /\ default_config' = <<>>
    /\ gsm_status' = "stopped"
    /\ system_load' = 0
    /\ active_calls' = 0
    /\ switches' = [id \in DOMAIN switches |-> FALSE]
    /\ table' = EmptyDict
    /\ log' = <<>>

\* Raise with the exception caught and dropped: the run goes on to the
\* dashboard.
Raise_swallowed(exc) ==
    /\ pc' = "construct_dashboard"
    /\ stderr' = Append(stderr, exc)
    /\ UNCHANGED <<exitStatus, memVars>>

\* An exception nobody catches: the interpreter prints the traceback and
\* exits with status 1.
Raise(exc) ==
    /\ Exit(1)
    /\ stderr' = Append(stderr, exc)

\* What the script ends with when main returns (line 275, or after line 282).
main_return_status == 0

\* main (lines 271-278): the privilege check; without root, print and return.
Main ==
    /\ pc = "main"
    /\ IF euid # 0
       THEN /\ stdout' = Append(stdout, "[error]This tool requires root privileges. Use sudo.[/error]")
            /\ Exit(main_return_status)
       ELSE /\ pc' = "load_or_create_config"
            /\ current_config' = EmptyDict
            /\ UNCHANGED <<stdout, exitStatus, default_config, uiVars>>
    /\ UNCHANGED <<euid, at_start, stderr, clock, fsVars>>

(***************************************************************************)
(* YateConfigManager.load_or_create_config (lines 76-87).                  *)
(***************************************************************************)
\* One os.makedirs call: FileExistsError when the directory is there.
MakeDir(path, mode, next) ==
    IF exists(path)
    THEN /\ Raise("FileExistsError")
         /\ UNCHANGED dirs
    ELSE /\ dirs' = makedirs(dirs, path, mode)
         /\ pc' = next
         /\ UNCHANGED <<exitStatus, stderr, memVars>>

MakeConfigDir ==
    /\ pc = "load_or_create_config"
    /\ IF exists(CONFIG_DIR)
       THEN /\ pc' = "check_config_file"
            /\ UNCHANGED <<dirs, exitStatus, stderr, memVars>>
       ELSE MakeDir(CONFIG_DIR, "0750", "makedirs_cert")
    /\ UNCHANGED <<euid, at_start, stdout, clock, configFile, certFile, keyFile, backupFiles>>

MakeCertDir ==
    /\ pc = "makedirs_cert"
    /\ MakeDir(CERT_DIR, "0700", "makedirs_backup")
    /\ UNCHANGED <<euid, at_start, stdout, clock, configFile, certFile, keyFile, backupFiles>>

MakeBackupDir ==
    /\ pc = "makedirs_backup"
    /\ MakeDir(BACKUP_DIR, "0750", "makedirs_log")
    /\ UNCHANGED <<euid, at_start, stdout, clock, configFile, certFile, keyFile, backupFiles>>

MakeLogDir ==
    /\ pc = "makedirs_log"
    /\ MakeDir(LOG_DIR, "0775", "check_config_file")
    /\ UNCHANGED <<euid, at_start, stdout, clock, configFile, certFile, keyFile, backupFiles>>

\* load_or_create without the test of line 84: always create_default_config
load_or_create_always_creates(config_exists) == "create_default_config"

\* lines 84-87: which of parse_config and create_default_config runs
load_or_create(config_exists) ==
    IF config_exists THEN "parse_config" ELSE "create_default_config"

CheckConfigFile ==
    /\ pc = "check_config_file"
    /\ pc' = load_or_create(exists(CONFIG_FILE))
    /\ UNCHANGED <<euid, at_start, exitStatus, stdout, stderr, clock, fsVars, memVars>>

\* parse_config (lines 89-95), then back in main; OSError when the file
\* cannot be read
ParseConfig ==
    /\ pc = "parse_config"
    /\ \E read \in BOOLEAN :
          IF read
          THEN /\ current_config' = parse_config(current_config, configFile)
               /\ pc' = "construct_dashboard"
               /\ UNCHANGED <<exitStatus, stderr, default_config, uiVars>>
          ELSE Raise("OSError")
    /\ UNCHANGED <<euid, at_start, stdout, clock, fsVars>>

(***************************************************************************)
(* YateConfigManager.create_default_config (lines 97-124).                 *)
(***************************************************************************)
\* lines 99-118: os.getlogin() raises OSError without a controlling terminal
RenderDefault ==
    /\ pc = "create_default_config"
    /\ \E login \in BOOLEAN :
          IF login
          THEN /\ default_config' = CONFIG_TEMPLATE(strftime(clock), "root", "bts")
               /\ pc' = "open_config_file"
               /\ UNCHANGED <<exitStatus, stderr, current_config, uiVars>>
          ELSE Raise("OSError")
    /\ UNCHANGED <<euid, at_start, stdout, clock, fsVars>>

\* line 120: open(CONFIG_FILE, 'w') creates or truncates the file
OpenConfigFile ==
    /\ pc = "open_config_file"
    /\ configFile' = [exists |-> TRUE, content |-> <<>>]
    /\ pc' = "write_config_file"
    /\ UNCHANGED <<euid, at_start, exitStatus, stdout, stderr, clock, dirs, certFile, keyFile,
                   backupFiles, memVars>>

\* lines 120-121: f.write and the close; OSError when the disk is full
WriteConfigFile ==
    /\ pc = "write_config_file"
    /\ \E written \in BOOLEAN :
          IF written
          THEN /\ configFile' = [configFile EXCEPT !.content = default_config]
               /\ pc' = "generate_self_signed_cert"
               /\ UNCHANGED <<exitStatus, stderr, memVars>>
          ELSE /\ Raise("OSError")
               /\ UNCHANGED configFile
    /\ UNCHANGED <<euid, at_start, stdout, clock, dirs, certFile, keyFile, backupFiles>>

(***************************************************************************)
(* YateConfigManager.generate_self_signed_cert (lines 126-138).            *)
(***************************************************************************)
\* The mode openssl gives a key file it creates: 0600 by recent releases,
\* 0666 less the umask by older ones.
KeyModes == {"0600", "0644"}

\* What `openssl req -x509 -newkey ... -keyout key -out cert` leaves behind:
\* it writes the key, then the certificate; it needs the directory.
OpensslOutcomes ==
    {o \in [key : BOOLEAN, cert : BOOLEAN, mode : KeyModes] :
        /\ o.cert => o.key
        /\ o.key => dirs[CERT_DIR].exists}

\* line 130: whether openssl has to run
must_generate(cert_exists) == ~cert_exists

\* lines 130-136, and line 124 when there is nothing to generate
GenerateCert ==
    /\ pc = "generate_self_signed_cert"
    /\ IF ~must_generate(exists(CERT_FILE))
       THEN /\ pc' = "construct_dashboard"
            /\ stdout' = Append(stdout, "Default configuration created")
            /\ default_config' = <<>>
            /\ UNCHANGED <<keyFile, certFile, exitStatus, stderr, current_config,
                           uiVars>>
       ELSE \E o \in OpensslOutcomes :
               /\ keyFile' = IF o.key
                             THEN [exists |-> TRUE,
                                   mode |-> IF keyFile.exists THEN keyFile.mode ELSE o.mode,
                                   content |-> <<"key">>]
                             ELSE keyFile
               /\ certFile' = IF o.cert
                              THEN [exists |-> TRUE, content |-> <<"cert">>]
                              ELSE certFile
               /\ IF o.cert
                  THEN /\ pc' = "chmod_key"
                       /\ UNCHANGED <<exitStatus, stderr, memVars>>
                  ELSE Raise("CalledProcessError")
               /\ UNCHANGED stdout
    /\ UNCHANGED <<euid, at_start, clock, dirs, configFile, backupFiles>>

\* lines 137-138, then line 124
ChmodKey ==
    /\ pc = "chmod_key"
    /\ keyFile' = [keyFile EXCEPT !.mode = "0600"]
    /\ stdout' = stdout \o <<"Generated TLS certificate pair",
                             "Default configuration created">>
    /\ pc' = "construct_dashboard"
    /\ default_config' = <<>>
    /\ UNCHANGED <<euid, at_start, exitStatus, stderr, clock, dirs, configFile, certFile,
                   backupFiles, current_config, uiVars>>

(***************************************************************************)
(* YateConfigManager.backup_config and validate_config (lines 140-150).    *)
(***************************************************************************)
\* lines 142-143
backup_file(t) == BACKUP_DIR \o <<"/yate.conf.", strftime(t)>>

\* `cp CONFIG_FILE dst` (line 144): copies when the source and the target
\* directory exist and replaces what dst held; os.system drops its status.
cp(dst) ==
    IF configFile.exists /\ dirs[BACKUP_DIR].exists
    THEN setitem(backupFiles, dst, configFile.content)
    ELSE backupFiles

\* lines 147-150
validate_config(cfg) == TRUE

(***************************************************************************)
(* YateDashboard (lines 152-269).                                          *)
(***************************************************************************)
\* main lines 281-282, __init__ and on_mount (lines 167-170, 206-218)
on_mount ==
    /\ pc = "construct_dashboard"
    /\ table' = current_config
    /\ pc' = "dashboard"
    /\ UNCHANGED <<euid, at_start, exitStatus, stdout, stderr, clock, fsVars, current_config,
                   default_config, gsm_status, system_load, active_calls, switches,
                   log>>

\* Log.write of one line: the widget keeps its last max_lines lines (line 202;
\* MaxLog lines here)
write(line) ==
    log' = IF Len(log) < MaxLog THEN Append(log, line) ELSE Append(Tail(log), line)

\* lines 220-232
\* The exit statuses of a process whose timer callback raised: the
\* framework ends the application and prints the traceback, and run()
\* either returns to main (status 0) or the error is passed on (status 1).
CrashStatuses == {0, 1}

\* The timer callback (lines 220-232).  os.getloadavg and the psutil calls
\* may raise; nothing catches it, so the application ends, whether the
\* exception came before the assignment of line 222 or after it.
update_system_metrics ==
    /\ pc = "dashboard"
    /\ \/ /\ \E load \in 0..MaxLoad : system_load' = load
          /\ UNCHANGED <<pc, euid, at_start, exitStatus, stdout, stderr, clock, fsVars,
                         current_config, default_config, gsm_status, active_calls,
                         switches, table, log>>
       \/ /\ \E status \in CrashStatuses : Exit(status)
          /\ stderr' = Append(stderr, "OSError")
          /\ UNCHANGED <<euid, at_start, stdout, clock, fsVars>>

\* lines 244-247
action_restart ==
    /\ pc = "dashboard"
    /\ write(<<"Restarting Yate service...">>)
    /\ UNCHANGED <<pc, euid, at_start, exitStatus, stdout, stderr, clock, fsVars,
                   current_config, default_config, gsm_status, system_load,
                   active_calls, switches, table>>

\* lines 249-252: what action_save does
save ==
    /\ write(<<"Saving configuration...">>)
    /\ UNCHANGED <<pc, euid, at_start, exitStatus, stdout, stderr, clock, fsVars,
                   current_config, default_config, gsm_status, system_load,
                   active_calls, switches, table>>

action_save == pc = "dashboard" /\ save

\* action_backup followed by a reload of the configuration file
action_backup_and_reload ==
    /\ pc = "dashboard"
    /\ backupFiles' = cp(backup_file(clock))
    /\ write(<<"Created backup: ">> \o backup_file(clock))
    /\ current_config' = parse_config(EmptyDict, configFile)
    /\ UNCHANGED <<pc, euid, at_start, exitStatus, stdout, stderr, clock, dirs, configFile,
                   certFile, keyFile, default_config, gsm_status,
                   system_load, active_calls, switches, table>>

\* lines 254-257
action_backup ==
    /\ pc = "dashboard"
    /\ backupFiles' = cp(backup_file(clock))
    /\ write(<<"Created backup: ">> \o backup_file(clock))
    /\ UNCHANGED <<pc, euid, at_start, exitStatus, stdout, stderr, clock, dirs, configFile,
                   certFile, keyFile, current_config, default_config, gsm_status,
                   system_load, active_calls, switches, table>>

\* lines 259-261
action_monitor ==
    /\ pc = "dashboard"
    /\ write(<<"Opening real-time monitor...">>)
    /\ UNCHANGED <<pc, euid, at_start, exitStatus, stdout, stderr, clock, fsVars,
                   current_config, default_config, gsm_status, system_load,
                   active_calls, switches, table>>

\* ctrl+q (line 159): the app ends, run() and main return
action_quit ==
    /\ pc = "dashboard"
    /\ Exit(main_return_status)
    /\ UNCHANGED <<euid, at_start, stdout, stderr, clock, fsVars>>

Buttons == {"apply-btn", "stop-btn", "add-param", "del-param"}

\* the Emergency Stop branch (lines 267-269)
stop_btn ==
    /\ gsm_status' = "stopped"
    /\ switches' = [switches EXCEPT !["gsm-switch"] = FALSE]
    /\ UNCHANGED <<pc, euid, at_start, exitStatus, stdout, stderr, clock, fsVars,
                   current_config, default_config, system_load,
                   active_calls, table, log>>

\* lines 263-269
on_button_pressed ==
    /\ pc = "dashboard"
    /\ \E id \in Buttons :
          IF id = "apply-btn" THEN save
          ELSE IF id = "stop-btn" THEN stop_btn
          ELSE UNCHANGED vars

\* switch_toggled with a handler that starts and stops the service
switch_toggled_starts_service ==
    /\ pc = "dashboard"
    /\ \E id \in DOMAIN switches :
          /\ switches' = [switches EXCEPT ![id] = ~@]
          /\ gsm_status' = IF switches'[id] THEN "running" ELSE "stopped"
    /\ UNCHANGED <<pc, euid, at_start, exitStatus, stdout, stderr, clock, fsVars,
                   current_config, default_config, system_load,
                   active_calls, table, log>>

\* the operator flips the GSM Service switch (line 179)
switch_toggled ==
    /\ pc = "dashboard"
    /\ \E id \in DOMAIN switches : switches' = [switches EXCEPT ![id] = ~@]
    /\ UNCHANGED <<pc, euid, at_start, exitStatus, stdout, stderr, clock, fsVars,
                   current_config, default_config, gsm_status, system_load,
                   active_calls, table, log>>

(***************************************************************************)
(* The environment: time passes; the process may be killed at any point.   *)
(***************************************************************************)
Tick ==
    /\ clock < MaxClock
    /\ clock' = clock + 1
    /\ UNCHANGED <<pc, euid, at_start, exitStatus, stdout, stderr, fsVars, current_config,
                   default_config, uiVars>>

Kill ==
    /\ pc # "idle"
    /\ Exit(137)
    /\ UNCHANGED <<euid, at_start, stdout, stderr, clock, fsVars>>

Next ==
    \/ \E uid \in {0, 1000} : Launch(uid)
    \/ Main
    \/ MakeConfigDir
    \/ MakeCertDir
    \/ MakeBackupDir
    \/ MakeLogDir
    \/ CheckConfigFile
    \/ ParseConfig
    \/ RenderDefault
    \/ OpenConfigFile
    \/ WriteConfigFile
    \/ GenerateCert
    \/ ChmodKey
    \/ on_mount
    \/ update_system_metrics
    \/ action_restart
    \/ action_save
    \/ action_backup
    \/ action_monitor
    \/ action_quit
    \/ on_button_pressed
    \/ switch_toggled
    \/ Tick
    \/ Kill

Spec == Init /\ [][Next]_vars

(***************************************************************************)
(* The parser on its own: parse_config applied to every file of at most    *)
(* MaxLines lines of at most MaxLineLen atoms.                             *)
(***************************************************************************)
Atoms == {"=", "#", " ", "k"}

\* the sequences over S of length at most n
SeqsUpTo(S, n) == UNION {[1..m -> S] : m \in 0..n}

ParseInit ==
    /\ clock = 0
    /\ dirs = [d \in Dirs |-> [exists |-> TRUE, mode |-> "0755"]]
    /\ \E n \in 0..MaxLines :
          configFile \in [exists : {TRUE}, content : [1..n -> SeqsUpTo(Atoms, MaxLineLen)]]
    /\ certFile = NoFile
    /\ keyFile = NoKey
    /\ backupFiles = EmptyDict
    /\ pc = "parse_config"
    /\ euid = 0
    /\ at_start = Snapshot
    /\ exitStatus = <<>>
    /\ stdout = <<>>
    /\ stderr = <<>>
    /\ NoMemory

ParseNext == ParseConfig

ParseSpec == ParseInit /\ [][ParseNext]_vars

(***************************************************************************)
(* C6.  The parser described by the specification, on the text of the      *)
(* lines themselves: a line contributes an entry iff it contains "=" and   *)
(* its trimmed text does not start with "#"; key and value are the         *)
(* trimmed texts before and after the first "="; of several lines with     *)
(* the same key the last one gives the value.                              *)
(***************************************************************************)
Min(S) == CHOOSE x \in S : \A y \in S : x <= y
Max(S) == CHOOSE x \in S : \A y \in S : x >= y

RefTrim(s) ==
    LET keep == {i \in 1..Len(s) : s[i] \notin {" ", "\t", "\n"}}
    IN  IF keep = {} THEN <<>> ELSE SubSeq(s, Min(keep), Max(keep))

RefEq(line) == Min({i \in 1..Len(line) : line[i] = "="})
RefContributes(line) ==
    /\ \E i \in 1..Len(line) : line[i] = "="
    /\ (RefTrim(line) = <<>> \/ RefTrim(line)[1] # "#")
RefKey(line) == RefTrim(SubSeq(line, 1, RefEq(line) - 1))
RefValue(line) == RefTrim(SubSeq(line, RefEq(line) + 1, Len(line)))

RefParse(lines) ==
    LET entries == {i \in 1..Len(lines) : RefContributes(lines[i])}
        last(k) == Max({i \in entries : RefKey(lines[i]) = k})
    IN  [k \in {RefKey(lines[i]) : i \in entries} |-> RefValue(lines[last(k)])]

created(p) == <<"Created backup: ">> \o p

\* the step wrote `line` to the event log
Logged(line) == log' # log /\ log' # <<>> /\ log'[Len(log')] = line

Running == pc # "idle"
Initialized == pc \in {"construct_dashboard", "dashboard"}

\* C1: a backup() call never reports the path of a backup that exists, that
\* is, of a backup taken earlier in the same second: it takes another path or
\* fails.
C1_SecondBackupTakesAnotherPath ==
    [][\A p \in DOMAIN backupFiles : ~Logged(created(p))]_vars

\* C2: whenever the event log reports a created backup at path P, a file is
\* at P and holds what the configuration file holds.
C2_ReportedBackupExists ==
    \A i \in DOMAIN log : \A t \in 0..MaxClock :
        log[i] = created(backup_file(t)) =>
            /\ backup_file(t) \in DOMAIN backupFiles
            /\ backupFiles[backup_file(t)] = configFile.content

\* C3: a run that found the configuration file and the certificate in place
\* creates no directory, writes no file and prints no "created"/"generated"
\* line while it initializes; it only loads the configuration file.
C3_InitializeIdempotent ==
    (Running /\ euid = 0
        /\ at_start.configFile.exists /\ at_start.certFile.exists) =>
        /\ pc \in {"main", "load_or_create_config", "check_config_file",
                   "parse_config", "construct_dashboard", "dashboard"}
        /\ dirs = at_start.dirs
        /\ configFile = at_start.configFile
        /\ certFile = at_start.certFile
        /\ keyFile = at_start.keyFile
        /\ stdout = <<>>
        /\ (Initialized => current_config = parse_lines(EmptyDict, configFile.content))

\* a second run has initialized on what a successful first run left behind
C3_Witness ==
    /\ pc = "construct_dashboard"
    /\ at_start.configFile.exists
    /\ at_start.certFile.exists
    /\ at_start.configFile.content = CONFIG_TEMPLATE(strftime(0), "root", "bts")
    /\ current_config # EmptyDict

\* C4: when initialization has completed in a run that found no certificate,
\* the key and the certificate exist.
C4_CertificateAfterInitialize ==
    (Initialized /\ ~at_start.certFile.exists) =>
        (keyFile.exists /\ certFile.exists)

\* C5: a private key file that exists has mode 0600.
C5_KeyOwnerOnly == keyFile.exists => keyFile.mode = "0600"

\* C7: the rules the specification gives validate(): band, country code,
\* network code and LAC present and non-empty, and with TLS.Enabled=yes the
\* key and certificate paths exist on disk.
Required == {<<"Radio.Band">>, <<"Radio.CountryCode">>, <<"Radio.NetworkCode">>,
             <<"Radio.LAC">>}

Violations(cfg) ==
    {k \in Required : k \notin DOMAIN cfg \/ cfg[k] = <<>>}
    \cup {k \in {<<"TLS.Key">>, <<"TLS.Certificate">>} :
            /\ <<"TLS.Enabled">> \in DOMAIN cfg
            /\ cfg[<<"TLS.Enabled">>] = <<"yes">>
            /\ (k \notin DOMAIN cfg \/ ~exists(cfg[k]))}

\* C7: validate() succeeds iff no rule is violated.
C7_ValidateChecksRules ==
    Initialized => (validate_config(current_config) <=> Violations(current_config) = {})

\* C8: a step that logs "Saving configuration..." (Apply Changes, ctrl+s) adds
\* exactly one backup, holding the configuration file as it was before.
C8_BackupBeforeWrite ==
    [][Logged(<<"Saving configuration...">>) =>
          \E p \in DOMAIN backupFiles' \ DOMAIN backupFiles :
              /\ DOMAIN backupFiles' = DOMAIN backupFiles \cup {p}
              /\ backupFiles'[p] = configFile.content]_vars

\* C9: after the save action the configuration file, reloaded, yields the
\* in-memory map (the store is clean).
C9_CleanAfterFlush ==
    [][Logged(<<"Saving configuration...">>) =>
          parse_lines(EmptyDict, configFile'.content) = current_config']_vars

\* C10: a run without root that ended by itself printed the error, ended
\* with a non-zero status and left the file system as it found it.
C10_PrivilegeGate ==
    (pc = "idle" /\ euid # 0 /\ exitStatus \notin {<<>>, <<137>>}) =>
        /\ stdout # <<>>
        /\ exitStatus # <<0>>
        /\ Snapshot = at_start

\* the positions of YateConfigManager() (lines 71-138)
InitializePcs ==
    {"load_or_create_config", "makedirs_cert", "makedirs_backup", "makedirs_log",
     "check_config_file", "parse_config", "create_default_config",
     "open_config_file", "write_config_file", "generate_self_signed_cert",
     "chmod_key"}

\* C11: a failure while the configuration manager initializes ends the
\* process at once with a non-zero status, and the dashboard is constructed
\* or running only in a run in which nothing has failed.
C11_StartupFailuresFatal ==
    [][/\ (pc \in InitializePcs /\ stderr' # stderr) =>
              (pc' = "idle" /\ exitStatus' # <<>> /\ exitStatus' # <<0>>)
       /\ (pc' \in {"construct_dashboard", "dashboard"}) =>
              (stderr' = <<>> /\ exitStatus' = <<>>)]_vars

\* openssl has failed during initialization: the process is gone, with
\* status 1, and the configuration file it wrote is left behind
C11_Witness ==
    /\ pc = "idle"
    /\ stderr = <<"CalledProcessError">>
    /\ exitStatus = <<1>>
    /\ configFile.exists
    /\ ~certFile.exists

\* C12: pressing Emergency Stop leaves the service status "stopped" and
\* appends an entry to the event log.
C12_EmergencyStopLogged ==
    [][(pc = "dashboard" /\ stop_btn) =>
           (gsm_status' = "stopped" /\ Len(log') > 0 /\ log' # log)]_vars

\* C13: a refresh whose telemetry query fails leaves the dashboard running
\* with every reactive field and the displayed table as they were, and
\* writes at most one line to the event log.
C13_RefreshFailureTolerated ==
    [][(pc = "dashboard" /\ stderr' # stderr) =>
           /\ pc' = "dashboard"
           /\ exitStatus' = <<>>
           /\ system_load' = system_load
           /\ <<gsm_status', active_calls', switches', table'>> =
                  <<gsm_status, active_calls, switches, table>>
           /\ Len(log') <= Len(log) + 1]_vars

\* the modes load_or_create_config passes to os.makedirs (lines 78-81)
DirModes ==
    [p \in Dirs |-> IF p = CONFIG_DIR THEN "0750"
                    ELSE IF p = CERT_DIR THEN "0700"
                    ELSE IF p = BACKUP_DIR THEN "0750"
                    ELSE "0775"]

\* C14: once the configuration manager is initialized the four directories
\* exist with their modes and the configuration file exists; when the run
\* started without a configuration directory, the file holds
\* Radio.Band=GSM900 and the certificate exists.
C14_LayoutAfterInitialize ==
    Initialized =>
        /\ \A p \in Dirs : dirs[p] = [exists |-> TRUE, mode |-> DirModes[p]]
        /\ configFile.exists
        /\ ~at_start.dirs[CONFIG_DIR].exists =>
               /\ \E i \in DOMAIN configFile.content :
                      configFile.content[i] = <<"Radio.Band", "=", "GSM900">>
               /\ certFile.exists

\* the complete default configurations create_default_config may render
Rendered == {CONFIG_TEMPLATE(strftime(t), "root", "bts") : t \in 0..MaxClock}

\* C15: whenever the process is gone, and whenever a run is about to load
\* the configuration file, the file is either missing or complete: the
\* file the installation came with or a whole rendered template, never a
\* truncated one.
C15_DefaultWriteAtomic ==
    (pc \in {"idle", "parse_config"} /\ configFile.exists) =>
        configFile.content \in InstalledConfigs \cup Rendered

\* C16: once the configuration manager is initialized, current_config is
\* the parse of the configuration file on disk, and after a run that had
\* to write the default file it holds Radio.Band = GSM900; the mounted
\* dashboard shows that map.
C16_MapEqualsDisk ==
    Initialized =>
        /\ current_config = parse_config(EmptyDict, configFile)
        /\ ~at_start.configFile.exists =>
               /\ <<"Radio.Band">> \in DOMAIN current_config
               /\ current_config[<<"Radio.Band">>] = <<"GSM900">>
        /\ pc = "dashboard" => table = current_config

\* C17: a step of the dashboard that reports a backup, whether cp copied
\* or not, leaves the in-memory map, the configuration file, key and
\* certificate, the directories and every dashboard field as they were; it
\* touches no backup but the one named after the current second and adds
\* one line to the event log.
C17_BackupFrame ==
    [][(pc = "dashboard" /\ Logged(created(backup_file(clock)))) =>
           /\ UNCHANGED <<pc, current_config, default_config, configFile, certFile,
                          keyFile, dirs, gsm_status, system_load, active_calls,
                          switches, table, exitStatus, stdout, stderr>>
           /\ DOMAIN backupFiles' \subseteq DOMAIN backupFiles \cup {backup_file(clock)}
           /\ \A p \in DOMAIN backupFiles \ {backup_file(clock)} :
                  p \in DOMAIN backupFiles' /\ backupFiles'[p] = backupFiles[p]
           /\ Len(log') <= Len(log) + 1]_vars

\* a second backup, one second after the first, has been reported and both
\* files are there
C17_Witness ==
    /\ pc = "dashboard"
    /\ log = <<created(backup_file(1))>>
    /\ DOMAIN backupFiles = {backup_file(0), backup_file(1)}
    /\ backupFiles[backup_file(0)] = configFile.content

\* C18: after the configuration file has been loaded no key of
\* current_config is the empty string (current_config being a function,
\* no key occurs twice).
C18_KeysNonEmpty ==
    pc = "construct_dashboard" => \A key \in DOMAIN current_config : key # <<>>

\* C19: whatever the operator and the timer do, gsm_status is "stopped"
\* and active_calls is 0 before and after every step, and a step of the
\* running dashboard that changes system_load changes nothing else: it is
\* the periodic refresh.
C19_ReactiveFields ==
    [][/\ gsm_status = "stopped" /\ gsm_status' = "stopped"
       /\ active_calls = 0 /\ active_calls' = 0
       /\ (pc' = "dashboard" /\ system_load' # system_load) =>
              /\ pc = "dashboard"
              /\ UNCHANGED <<euid, at_start, exitStatus, stdout, stderr, clock,
                             fsVars, current_config, default_config, gsm_status,
                             active_calls, switches, table, log>>]_vars

\* the dashboard after a refresh, a switch toggle and a logged action
C19_Witness ==
    /\ pc = "dashboard"
    /\ system_load = MaxLoad
    /\ switches["gsm-switch"]
    /\ log # <<>>
    /\ gsm_status = "stopped"

=============================================================================
